---- MODULE Spec2Model ----
(***************************************************************************)
(* Model of scripts/fetch_updates.py: the IntelligentModelTracker that     *)
(* polls RSS feeds, GitHub release endpoints and Hugging Face searches,    *)
(* keeps the candidates dated today, removes duplicates and rewrites the   *)
(* JSON store data.json sorted by date.                                    *)
(*                                                                         *)
(* Text values (names, titles, tags, links) are sequences of characters.   *)
(* A calendar date string 'YYYY-MM-DD' is the triple <<year, month, day>>; *)
(* an instant of time is the number of the day it falls on.  A run reads   *)
(* the clock once: it is taken not to span midnight.                       *)
(***************************************************************************)
EXTENDS Integers, Sequences, FiniteSets, TLC

VARIABLES data_file,    \* content of DATA_FILE: [kind, recs]
          today,        \* the day datetime.now() falls on
          world,        \* what the external sources answer at present
          last,         \* observation of the latest run of fetch_all_updates
          repeat,       \* the latest run followed a run with the same day and answers
          release_in,   \* argument of the latest extract_model_info_from_github call
          info_out      \* its result

vars == <<data_file, today, world, last, repeat, release_in, info_out>>

-----------------------------------------------------------------------------
(* Bounds *)

MaxDay == 3        \* the clock runs over the days 1..MaxDay
MaxTagLen == 3     \* longest release tag enumerated for the tag clean-up

-----------------------------------------------------------------------------
(* Text helpers *)

Min(a, b) == IF a <= b THEN a ELSE b

Has(d, k) == k \in DOMAIN d

\* dict.get(k, default)
Get(d, k, default) == IF k \in DOMAIN d THEN d[k] ELSE default

UpperCase ==
  <<"A","B","C","D","E","F","G","H","I","J","K","L","M",
    "N","O","P","Q","R","S","T","U","V","W","X","Y","Z">>

LowerCase ==
  <<"a","b","c","d","e","f","g","h","i","j","k","l","m",
    "n","o","p","q","r","s","t","u","v","w","x","y","z">>

LowerChar(c) ==
  IF \E i \in 1..26 : UpperCase[i] = c
  THEN LowerCase[CHOOSE i \in 1..26 : UpperCase[i] = c]
  ELSE c

\* str.lower()
Lower(s) == [i \in 1..Len(s) |-> LowerChar(s[i])]

\* sub in s
Contains(sub, s) ==
  \E i \in 0..(Len(s) - Len(sub)) : SubSeq(s, i + 1, i + Len(sub)) = sub

\* s[:n]
Prefix(s, n) == SubSeq(s, 1, Min(Len(s), n))

Digits == {"0","1","2","3","4","5","6","7","8","9"}

Whitespace == {" "}

RECURSIVE LStrip(_, _)
LStrip(s, chars) ==
  IF s # <<>> /\ Head(s) \in chars THEN LStrip(Tail(s), chars) ELSE s

RECURSIVE RStrip(_, _)
RStrip(s, chars) ==
  IF s # <<>> /\ s[Len(s)] \in chars
  THEN RStrip(SubSeq(s, 1, Len(s) - 1), chars)
  ELSE s

\* str.strip(chars)
Strip(s, chars) == RStrip(LStrip(s, chars), chars)

-----------------------------------------------------------------------------
(* Dates.  Day 1 is 2024-12-30, so the days cross a month and a year end. *)

LastDay == 8

\* strftime('%Y-%m-%d') of an instant on day d
strftime(d) == IF d <= 2 THEN <<2024, 12, 29 + d>> ELSE <<2025, 1, d - 2>>

\* datetime.strptime(s, '%Y-%m-%d'): the day, or 0 when it raises ValueError
strptime(s) ==
  IF \E d \in 1..LastDay : strftime(d) = s
  THEN CHOOSE d \in 1..LastDay : strftime(d) = s
  ELSE 0

\* comparison of two 'YYYY-MM-DD' strings, character by character
DateStrGE(a, b) ==
  \/ a[1] > b[1]
  \/ a[1] = b[1] /\ a[2] > b[2]
  \/ a[1] = b[1] /\ a[2] = b[2] /\ a[3] >= b[3]

-----------------------------------------------------------------------------
(* Configuration *)

MODEL_PATTERNS ==
  ("OpenAI" :> [
      keywords |-> <<<<"g", "p", "t">>,
                     <<"c", "h", "a", "t", "g", "p", "t">>,
                     <<"o", "1">>,
                     <<"o", "3">>,
                     <<"d", "a", "v", "i", "n", "c", "i">>,
                     <<"c", "u", "r", "i", "e">>,
                     <<"b", "a", "b", "b", "a", "g", "e">>,
                     <<"a", "d", "a">>>>,
      api_endpoints |-> <<"https://api.github.com/repos/openai/openai-python/releases">>,
      official_sites |-> <<"https://openai.com/blog/rss.xml">>])
  @@ ("Anthropic" :> [
      keywords |-> <<<<"c", "l", "a", "u", "d", "e">>,
                     <<"s", "o", "n", "n", "e", "t">>,
                     <<"o", "p", "u", "s">>,
                     <<"h", "a", "i", "k", "u">>>>,
      api_endpoints |-> <<"https://api.github.com/repos/anthropics/anthropic-sdk-python/releases">>,
      official_sites |-> <<"https://www.anthropic.com/news.rss">>])
  @@ ("Google" :> [
      keywords |-> <<<<"g", "e", "m", "i", "n", "i">>,
                     <<"b", "a", "r", "d">>,
                     <<"p", "a", "l", "m">>,
                     <<"l", "a", "m", "d", "a">>,
                     <<"p", "a", "t", "h", "w", "a", "y", "s">>>>,
      api_endpoints |-> <<"https://api.github.com/repos/google/generative-ai-python/releases">>,
      official_sites |-> <<"https://blog.google/technology/ai/rss/">>])
  @@ ("Meta" :> [
      keywords |-> <<<<"l", "l", "a", "m", "a">>,
                     <<"c", "o", "d", "e", " ", "l", "l", "a", "m", "a">>,
                     <<"p", "u", "r", "p", "l", "e", " ", "l", "l", "a", "m", "a">>>>,
      api_endpoints |-> <<"https://api.github.com/repos/facebookresearch/llama/releases">>,
      official_sites |-> <<"https://ai.meta.com/blog/rss/">>])
  @@ ("xAI" :> [
      keywords |-> <<<<"g", "r", "o", "k">>>>,
      api_endpoints |-> <<>>,
      official_sites |-> <<>>])
  @@ ("DeepSeek" :> [
      keywords |-> <<<<"d", "e", "e", "p", "s", "e", "e", "k">>>>,
      api_endpoints |-> <<"https://api.github.com/repos/deepseek-ai/DeepSeek-LLM/releases">>,
      official_sites |-> <<>>])
  @@ ("Alibaba" :> [
      keywords |-> <<<<"q", "w", "e", "n">>,
                     <<"U+901A", "U+4E49">>,
                     <<"t", "o", "n", "g", "y", "i">>>>,
      api_endpoints |-> <<"https://api.github.com/repos/QwenLM/Qwen/releases">>,
      official_sites |-> <<>>])
  @@ ("Moonshot" :> [
      keywords |-> <<<<"k", "i", "m", "i">>,
                     <<"m", "o", "o", "n", "s", "h", "o", "t">>>>,
      api_endpoints |-> <<>>,
      official_sites |-> <<>>])
  @@ ("ByteDance" :> [
      keywords |-> <<<<"d", "o", "u", "b", "a", "o">>,
                     <<"U+8C46", "U+5305">>,
                     <<"b", "y", "t", "e", "d", "a", "n", "c", "e">>>>,
      api_endpoints |-> <<>>,
      official_sites |-> <<>>])

CompanyOrder ==
  <<"OpenAI", "Anthropic", "Google", "Meta", "xAI", "DeepSeek", "Alibaba", "Moonshot", "ByteDance">>

ReleaseWords ==
  << <<"r","e","l","e","a","s","e">>,
     <<"l","a","u","n","c","h">>,
     <<"a","n","n","o","u","n","c","e">>,
     <<"u","n","v","e","i","l">>,
     <<"i","n","t","r","o","d","u","c","e">>,
     <<"a","v","a","i","l","a","b","l","e">>,
     <<"n","e","w">> >>

RssLimit == 5
GithubLimit == 5
FeaturesLimitGithub == 500
FeaturesLimitRss == 300
\* a cap that lets a third model in
HfCapLoose == 2 + 1

HfCap == 2

HfLinkPrefix == <<"https://huggingface.co/">>

(* Python None: 0 where a time is expected, NullText where a text is.       *)

NullText == <<"None">>

-----------------------------------------------------------------------------
(* The external sources.  world = [rss, gh, hf] selects, for each kind of   *)
(* source, one of a few situations; a query the situation does not mention  *)
(* answers with nothing.                                                    *)

OpenAIFeed == "https://openai.com/blog/rss.xml"
AnthropicFeed == "https://www.anthropic.com/news.rss"
OpenAIRepo == "https://api.github.com/repos/openai/openai-python/releases"
AnthropicRepo == "https://api.github.com/repos/anthropics/anthropic-sdk-python/releases"
DeepSeekRepo == "https://api.github.com/repos/deepseek-ai/DeepSeek-LLM/releases"
QwenRepo == "https://api.github.com/repos/QwenLM/Qwen/releases"

LinkXY == <<"https://x/y">>
LinkA == <<"https://x/a">>
LinkB == <<"https://x/b">>
LinkC == <<"https://x/c">>

TitleNewGPT == <<"N","e","w"," ","G","P","T">>
TitleFunding == <<"G","P","T"," ","f","u","n","d","s">>
TitleModel == <<"O","u","r"," ","l","a","u","n","c","h">>
TitleClaude == <<"C","l","a","u","d","e"," ","n","e","w","s">>
TitleOpus == <<"N","e","w"," ","O","p","u","s">>
TitleOther == <<"H","i","r","i","n","g">>

SomeText == <<"n","o","t","e","s">>
TextGpt == <<"a"," ","g","p","t">>

Irrelevant == [title |-> TitleOther, summary |-> SomeText, link |-> LinkC]

\* feedparser.parse(rss_url): it raises, or yields a feed with entries
feedparser_parse(w, rss_url) ==
  CASE w.rss = 1 /\ rss_url = OpenAIFeed ->
         [raises |-> FALSE, entries |->
           << [title |-> TitleNewGPT, summary |-> SomeText, link |-> LinkXY,
               published_parsed |-> 1],
              [title |-> TitleFunding, summary |-> SomeText, link |-> LinkA,
               published_parsed |-> 1],
              [title |-> TitleModel, summary |-> TextGpt, link |-> LinkB,
               published_parsed |-> 2] >>]
    [] w.rss = 2 /\ rss_url = OpenAIFeed ->
         [raises |-> FALSE, entries |->
           << [title |-> TitleNewGPT, summary |-> SomeText, link |-> LinkXY],
              [title |-> TitleModel, summary |-> TextGpt],
              [title |-> TitleModel, summary |-> TextGpt, link |-> LinkB] >>]
    [] w.rss = 3 /\ rss_url = OpenAIFeed ->
         [raises |-> TRUE, entries |-> <<>>]
    [] w.rss = 3 /\ rss_url = AnthropicFeed ->
         [raises |-> FALSE, entries |->
           << [title |-> TitleClaude, summary |-> SomeText, link |-> LinkA,
               published_parsed |-> 2],
              Irrelevant, Irrelevant, Irrelevant, Irrelevant,
              [title |-> TitleOpus, summary |-> SomeText, link |-> LinkB,
               published_parsed |-> 2] >>]
    [] OTHER -> [raises |-> FALSE, entries |-> <<>>]

TagTurbo == <<"v","2",".","1","-","t","u","r","b","o">>
TagV3 == <<"v","3">>
Tag4o == <<"4","o">>
TagNewGPT == <<"v","1","-","N","e","w"," ","G","P","T">>
TagPlain == <<"t","u","r","b","o">>
TagQwen2 == <<"q","w","e","n","-","2">>
TagQwen3 == <<"q","w","e","n","-","3">>

\* session.get(repo_url, timeout=10): it raises, or yields a response whose
\* body is a JSON list, a JSON object or no JSON at all
session_get(w, repo_url) ==
  CASE w.gh = 1 /\ repo_url = OpenAIRepo ->
         [raises |-> FALSE, status_code |-> 200, json |-> "list", items |->
           << [published_at |-> 1, tag_name |-> TagTurbo, body |-> SomeText,
               html_url |-> LinkXY],
              [published_at |-> 2, tag_name |-> TagV3, body |-> SomeText,
               html_url |-> LinkC],
              [published_at |-> 0, tag_name |-> Tag4o, body |-> SomeText,
               html_url |-> LinkA],
              [published_at |-> 2, tag_name |-> Tag4o, body |-> NullText,
               html_url |-> LinkA],
              [published_at |-> 3, name |-> TagNewGPT],
              [published_at |-> 3, tag_name |-> TagPlain, body |-> SomeText,
               html_url |-> LinkB] >>]
    [] w.gh = 2 /\ repo_url = OpenAIRepo ->
         [raises |-> TRUE, status_code |-> 0, json |-> "none", items |-> <<>>]
    [] w.gh = 2 /\ repo_url = DeepSeekRepo ->
         [raises |-> FALSE, status_code |-> 200, json |-> "list", items |->
           << [published_at |-> 1, tag_name |-> TagTurbo, body |-> SomeText,
               html_url |-> LinkA],
              [published_at |-> 1, tag_name |-> TagPlain, body |-> SomeText,
               html_url |-> LinkB] >>]
    [] w.gh = 3 /\ repo_url = OpenAIRepo ->
         [raises |-> FALSE, status_code |-> 404, json |-> "object", items |-> <<>>]
    [] w.gh = 3 /\ repo_url = AnthropicRepo ->
         [raises |-> FALSE, status_code |-> 200, json |-> "object", items |-> <<>>]
    [] w.gh = 3 /\ repo_url = QwenRepo ->
         [raises |-> FALSE, status_code |-> 200, json |-> "list", items |->
           << [published_at |-> 2, tag_name |-> TagQwen2, body |-> SomeText],
              [published_at |-> 2, tag_name |-> TagQwen3, body |-> SomeText] >>]
    [] OTHER -> [raises |-> FALSE, status_code |-> 200, json |-> "list", items |-> <<>>]

KwGpt == <<"g","p","t">>
KwO1 == <<"o","1">>
KwDeepseek == <<"d","e","e","p","s","e","e","k">>
KwGrok == <<"g","r","o","k">>

IdA == <<"o","r","g","/","a">>
IdB == <<"o","r","g","/","b">>
IdC == <<"o","r","g","/","c">>
IdD == <<"o","r","g","/","d">>

SixTags == << <<"t","1">>, <<"t","2">>, <<"t","3">>, <<"t","4">>, <<"t","5">>, <<"t","6">> >>

\* hf_api.list_models(search=keyword, sort="lastModified", direction=-1,
\* limit=10), consumed by list(): it raises, or yields model descriptors
list_models(w, keyword) ==
  CASE w.hf = 1 /\ keyword = KwGpt ->
         [raises |-> FALSE, results |->
           << [modelId |-> IdA, lastModified |-> 1, tags |-> SixTags],
              [modelId |-> IdB, lastModified |-> 1, tags |-> <<>>],
              [modelId |-> IdC, lastModified |-> 1] >>]
    [] w.hf = 2 /\ keyword = KwGpt ->
         [raises |-> TRUE, results |-> <<>>]
    [] w.hf = 2 /\ keyword = KwO1 ->
         [raises |-> FALSE, results |->
           << [modelId |-> IdA],
              [modelId |-> IdA, lastModified |-> 0],
              [lastModified |-> 2],
              [modelId |-> IdD, lastModified |-> 2] >>]
    [] w.hf = 3 /\ keyword = KwDeepseek ->
         [raises |-> FALSE, results |->
           << [modelId |-> TagPlain, lastModified |-> 1],
              [modelId |-> IdB, lastModified |-> 2],
              [modelId |-> IdC, lastModified |-> 2],
              [modelId |-> IdD, lastModified |-> 2] >>]
    [] w.hf = 3 /\ keyword = KwGrok ->
         [raises |-> FALSE, results |->
           << [modelId |-> IdD, lastModified |-> 3] >>]
    [] OTHER -> [raises |-> FALSE, results |-> <<>>]

\* the situations taken together
Worlds == {[rss |-> i, gh |-> i, hf |-> i] : i \in 0..3}

-----------------------------------------------------------------------------
(* Names *)

Unknown == <<"U","n","k","n","o","w","n">>

CompanyChars ==
  ("OpenAI" :> <<"O","p","e","n","A","I">>)
  @@ ("Anthropic" :> <<"A","n","t","h","r","o","p","i","c">>)
  @@ ("Google" :> <<"G","o","o","g","l","e">>)
  @@ ("Meta" :> <<"M","e","t","a">>)
  @@ ("xAI" :> <<"x","A","I">>)
  @@ ("DeepSeek" :> <<"D","e","e","p","S","e","e","k">>)
  @@ ("Alibaba" :> <<"A","l","i","b","a","b","a">>)
  @@ ("Moonshot" :> <<"M","o","o","n","s","h","o","t">>)
  @@ ("ByteDance" :> <<"B","y","t","e","D","a","n","c","e">>)

-----------------------------------------------------------------------------
(* The store file *)

\* load_existing_data: the value returned, or the exception that escapes.
\* FileNotFoundError and json.JSONDecodeError give []; a file that is not
\* UTF-8 raises UnicodeDecodeError, which is neither; a JSON document that
\* is not a list is returned as it is.
load_existing_data(file) ==
  CASE file.kind = "absent" -> [raised |-> FALSE, kind |-> "list", recs |-> <<>>]
    [] file.kind = "corrupt" -> [raised |-> FALSE, kind |-> "list", recs |-> <<>>]
    [] file.kind = "not_utf8" -> [raised |-> TRUE, kind |-> "none", recs |-> <<>>]
    [] file.kind = "json_object" -> [raised |-> FALSE, kind |-> "dict", recs |-> <<>>]
    [] OTHER -> [raised |-> FALSE, kind |-> "list", recs |-> file.recs]

\* place x behind every element whose key is not smaller: the order
\* list.sort(key, reverse=True) gives, equal keys keeping their order
RECURSIVE InsertDesc(_, _)
InsertDesc(x, sorted) ==
  IF sorted = <<>> THEN <<x>>
  ELSE IF strptime(Head(sorted).update_date) >= strptime(x.update_date)
       THEN <<Head(sorted)>> \o InsertDesc(x, Tail(sorted))
       ELSE <<x>> \o sorted

\* a save that forgets to sort
NoSort(data) == data

RECURSIVE SortByDateDesc(_)
SortByDateDesc(data) ==
  IF data = <<>> THEN <<>>
  ELSE InsertDesc(data[Len(data)], SortByDateDesc(SubSeq(data, 1, Len(data) - 1)))

\* save_data: the file after the call; strptime raising leaves it as it was
save_data(data, file) ==
  IF \E i \in 1..Len(data) : strptime(data[i].update_date) = 0
  THEN [raised |-> TRUE, file |-> file]
  ELSE [raised |-> FALSE, file |-> [kind |-> "records", recs |-> SortByDateDesc(data)]]

-----------------------------------------------------------------------------
(* Normalisation *)

\* end of the longest run of digits that starts at pos (pos - 1 if none)
RECURSIVE DigitRunEnd(_, _)
DigitRunEnd(s, pos) ==
  IF pos <= Len(s) /\ s[pos] \in Digits THEN DigitRunEnd(s, pos + 1) ELSE pos - 1

\* \d+ alone, the '<digits>.' groups forgotten
MatchFirstRun(s, pos) ==
  LET e == DigitRunEnd(s, pos) IN IF e < pos THEN -1 ELSE e

\* (\d+\.)*\d+ tried at pos, greedy with backtracking: end of the match or -1
RECURSIVE MatchNumber(_, _)
MatchNumber(s, pos) ==
  LET e == DigitRunEnd(s, pos) IN
  IF e < pos THEN -1
  ELSE IF e < Len(s) /\ s[e + 1] = "."
       THEN LET r == MatchNumber(s, e + 2) IN IF r # -1 THEN r ELSE e
       ELSE e

\* ^v?(\d+\.)*\d+ : end of the match or -1
MatchVersion(s) ==
  IF s # <<>> /\ s[1] = "v"
  THEN LET r == MatchNumber(s, 2) IN IF r # -1 THEN r ELSE MatchNumber(s, 1)
  ELSE MatchNumber(s, 1)

\* re.sub(r'^v?(\d+\.)*\d+', '', model_name).strip('-').strip()
CleanName(model_name) ==
  LET e == MatchVersion(model_name)
      rest == IF e = -1 THEN model_name ELSE SubSeq(model_name, e + 1, Len(model_name))
  IN Strip(Strip(rest, {"-"}), Whitespace)

NoInfo == [ok |-> FALSE]

extract_model_info_from_github(release, company) ==
  IF \/ ~Has(release, "published_at")
     \/ release.published_at = 0
     \/ Get(release, "tag_name", Get(release, "name", Unknown)) = NullText
     \/ Get(release, "body", <<>>) = NullText
  THEN NoInfo
  ELSE LET raw == Get(release, "tag_name", Get(release, "name", Unknown))
           cleaned == CleanName(raw)
           model_name == IF cleaned = <<>>
                         THEN CompanyChars[company]
                              \o <<" ","M","o","d","e","l"," ">>
                              \o Get(release, "tag_name", Unknown)
                         ELSE cleaned
       IN [ok |-> TRUE,
           rec |-> [company |-> company,
                    model_name |-> model_name,
                    update_date |-> strftime(release.published_at),
                    features |-> Prefix(Get(release, "body", <<>>), FeaturesLimitGithub),
                    source |-> "GitHub",
                    link |-> Get(release, "html_url", <<>>)]]

\* ', '.join(tags)
RECURSIVE Join(_)
Join(tags) ==
  IF tags = <<>> THEN <<>>
  ELSE IF Len(tags) = 1 THEN tags[1]
  ELSE tags[1] \o <<",", " ">> \o Join(Tail(tags))

extract_model_info_from_hf(model, company, now) ==
  IF ~Has(model, "modelId") THEN NoInfo
  ELSE [ok |-> TRUE,
        rec |-> [company |-> company,
                 model_name |-> model.modelId,
                 update_date |-> IF Get(model, "lastModified", 0) # 0
                                 THEN strftime(model.lastModified)
                                 ELSE strftime(now),
                 features |-> IF Get(model, "tags", <<>>) # <<>>
                              THEN <<"T","a","g","s",":"," ">> \o Join(Prefix(model.tags, 5))
                              ELSE <<>>,
                 source |-> "Hugging Face",
                 link |-> HfLinkPrefix \o model.modelId]]

\* a date check that only asks for a well-formed date
is_today_update_any(update_date, now) == strptime(update_date) # 0

is_today_update(update_date, now) ==
  strptime(update_date) # 0 /\ strptime(update_date) = now

\* a duplicate check that forgets the link
is_duplicate_name_only(new_item, existing_data) ==
  \E i \in 1..Len(existing_data) :
     /\ existing_data[i].company = new_item.company
     /\ existing_data[i].model_name = new_item.model_name

is_duplicate(new_item, existing_data) ==
  \E i \in 1..Len(existing_data) :
     \/ new_item.link # <<>> /\ existing_data[i].link = new_item.link
     \/ /\ existing_data[i].company = new_item.company
        /\ existing_data[i].model_name = new_item.model_name

-----------------------------------------------------------------------------
(* Polling.  A candidate is kept together with the query it came from:      *)
(* [rec, query], query = <<kind, url or keyword>>.                          *)

Recs(cands) == [i \in 1..Len(cands) |-> cands[i].rec]

\* the loop over feed.entries[:5] of one feed; raised: an entry made the
\* loop leave through the except clause of the feed
RECURSIVE RssEntries(_, _, _, _, _)
RssEntries(entries, company, rss_url, now, updates) ==
  IF entries = <<>> THEN [updates |-> updates, raised |-> FALSE]
  ELSE
    LET entry == Head(entries) IN
    IF ~Has(entry, "title") THEN [updates |-> updates, raised |-> TRUE]
    ELSE
      LET title_lower == Lower(entry.title)
          summary_lower == Lower(Get(entry, "summary", <<>>))
          keywords == MODEL_PATTERNS[company].keywords
          has_keyword == \E k \in 1..Len(keywords) :
                            \/ Contains(Lower(keywords[k]), title_lower)
                            \/ Contains(Lower(keywords[k]), summary_lower)
          has_word == \E k \in 1..Len(ReleaseWords) :
                            Contains(ReleaseWords[k], title_lower)
          published_date == Get(entry, "published_parsed", 0)
          update_date == IF published_date # 0 THEN strftime(published_date)
                                               ELSE strftime(now)
      IN
      IF has_keyword /\ has_word /\ is_today_update(update_date, now)
      THEN IF ~Has(entry, "link") THEN [updates |-> updates, raised |-> TRUE]
           ELSE RssEntries(Tail(entries), company, rss_url, now,
                  Append(updates,
                    [rec |-> [company |-> company,
                              model_name |-> entry.title,
                              update_date |-> update_date,
                              features |-> Prefix(Get(entry, "summary", <<>>), FeaturesLimitRss),
                              source |-> "Official RSS",
                              link |-> entry.link],
                     query |-> <<"rss", rss_url>>]))
      ELSE RssEntries(Tail(entries), company, rss_url, now, updates)

\* the loop over the feeds of one company, from feed number k on
RECURSIVE RssFeeds(_, _, _, _, _)
RssFeeds(w, company, k, now, acc) ==
  LET sites == MODEL_PATTERNS[company].official_sites IN
  IF k > Len(sites) THEN acc
  ELSE
    LET feed == feedparser_parse(w, sites[k])
        r == IF feed.raises THEN [updates |-> acc.updates, raised |-> TRUE]
             ELSE RssEntries(Prefix(feed.entries, RssLimit), company, sites[k],
                             now, acc.updates)
    IN RssFeeds(w, company, k + 1, now,
                [updates |-> r.updates,
                 failed |-> IF r.raised THEN acc.failed \cup {<<"rss", sites[k]>>}
                                        ELSE acc.failed])

\* the loop over the companies, from company number c on
RECURSIVE RssCompanies(_, _, _, _)
RssCompanies(w, c, now, acc) ==
  IF c > Len(CompanyOrder) THEN acc
  ELSE RssCompanies(w, c + 1, now, RssFeeds(w, CompanyOrder[c], 1, now, acc))

fetch_official_rss_updates(w, now) ==
  RssCompanies(w, 1, now, [updates |-> <<>>, failed |-> {}])

\* fetch_github_releases: releases[:5], or [] when the request raises, the
\* status is not 200, or the body is not a JSON list
fetch_github_releases(w, repo_url) ==
  LET response == session_get(w, repo_url) IN
  IF ~response.raises /\ response.status_code = 200 /\ response.json = "list"
  THEN [releases |-> Prefix(response.items, GithubLimit), failed |-> FALSE]
  ELSE [releases |-> <<>>, failed |-> TRUE]

\* fetch_huggingface_models: the results of the keywords one after the other,
\* a keyword whose search raises being skipped
RECURSIVE HfKeywords(_, _, _, _)
HfKeywords(w, company_keywords, k, acc) ==
  IF k > Len(company_keywords) THEN acc
  ELSE
    LET search_results == list_models(w, company_keywords[k])
        query == <<"hf", company_keywords[k]>>
    IN HfKeywords(w, company_keywords, k + 1,
         IF search_results.raises
         THEN [acc EXCEPT !.failed = @ \cup {query}]
         ELSE [acc EXCEPT !.models = @ \o
                 [i \in 1..Len(search_results.results) |->
                    [model |-> search_results.results[i], query |-> query]]])

fetch_huggingface_models(w, company_keywords) ==
  HfKeywords(w, company_keywords, 1, [models |-> <<>>, failed |-> {}])

-----------------------------------------------------------------------------
(* One run.  acc = [new, raised, log, failed, done]: the candidates accepted *)
(* so far, whether an exception has escaped, one log line per candidate     *)
(* that reached the merge, the queries that failed, the stages finished.    *)

LogLine(cand, stage, accepted) ==
  [rec |-> cand.rec, query |-> cand.query, stage |-> stage, accepted |-> accepted]

\* a merge that compares with the loaded store only
MergeStoreOnly(acc, cand, stage, existing) ==
  IF existing.kind # "list" THEN [acc EXCEPT !.raised = TRUE]
  ELSE IF is_duplicate(cand.rec, existing.recs)
       THEN [acc EXCEPT !.log = Append(@, LogLine(cand, stage, FALSE))]
       ELSE [acc EXCEPT !.new = Append(@, cand),
                        !.log = Append(@, LogLine(cand, stage, TRUE))]

\* if not self.is_duplicate(x, existing_data + new_updates): new_updates.append(x)
\* existing_data + new_updates raises TypeError unless existing_data is a list
Merge(acc, cand, stage, existing) ==
  IF existing.kind # "list" THEN [acc EXCEPT !.raised = TRUE]
  ELSE IF is_duplicate(cand.rec, existing.recs \o Recs(acc.new))
       THEN [acc EXCEPT !.log = Append(@, LogLine(cand, stage, FALSE))]
       ELSE [acc EXCEPT !.new = Append(@, cand),
                        !.log = Append(@, LogLine(cand, stage, TRUE))]

\* if model_info and self.is_today_update(...) and not self.is_duplicate(...)
MergeToday(acc, cand, stage, existing, now) ==
  IF ~is_today_update(cand.rec.update_date, now) THEN acc
  ELSE Merge(acc, cand, stage, existing)

RECURSIVE RssStage(_, _, _, _)
RssStage(rss_updates, i, existing, acc) ==
  IF i > Len(rss_updates) \/ acc.raised THEN acc
  ELSE RssStage(rss_updates, i + 1, existing, Merge(acc, rss_updates[i], "rss", existing))

RECURSIVE GithubReleases(_, _, _, _, _, _, _)
GithubReleases(releases, i, company, api_endpoint, existing, now, acc) ==
  IF i > Len(releases) \/ acc.raised THEN acc
  ELSE
    LET model_info == extract_model_info_from_github(releases[i], company) IN
    GithubReleases(releases, i + 1, company, api_endpoint, existing, now,
      IF model_info.ok
      THEN MergeToday(acc, [rec |-> model_info.rec, query |-> <<"github", api_endpoint>>],
                      "github", existing, now)
      ELSE acc)

RECURSIVE GithubEndpoints(_, _, _, _, _, _)
GithubEndpoints(w, company, k, existing, now, acc) ==
  LET api_endpoints == MODEL_PATTERNS[company].api_endpoints IN
  IF k > Len(api_endpoints) \/ acc.raised THEN acc
  ELSE
    LET fetched == fetch_github_releases(w, api_endpoints[k])
        acc1 == IF fetched.failed
                THEN [acc EXCEPT !.failed = @ \cup {<<"github", api_endpoints[k]>>}]
                ELSE acc
    IN GithubEndpoints(w, company, k + 1, existing, now,
         GithubReleases(fetched.releases, 1, company, api_endpoints[k], existing, now, acc1))

RECURSIVE GithubStage(_, _, _, _, _)
GithubStage(w, c, existing, now, acc) ==
  IF c > Len(CompanyOrder) \/ acc.raised THEN acc
  ELSE GithubStage(w, c + 1, existing, now,
         GithubEndpoints(w, CompanyOrder[c], 1, existing, now, acc))

\* the loop over the models of one company, left when today_count reaches 2
RECURSIVE HfModels(_, _, _, _, _, _, _)
HfModels(models, i, company, today_count, existing, now, acc) ==
  IF i > Len(models) \/ acc.raised \/ today_count >= HfCap THEN acc
  ELSE
    LET model_info == extract_model_info_from_hf(models[i].model, company, now)
        acc1 == IF model_info.ok
                THEN MergeToday(acc, [rec |-> model_info.rec, query |-> models[i].query],
                                "hf", existing, now)
                ELSE acc
    IN HfModels(models, i + 1, company,
                IF Len(acc1.new) > Len(acc.new) THEN today_count + 1 ELSE today_count,
                existing, now, acc1)

RECURSIVE HfStage(_, _, _, _, _)
HfStage(w, c, existing, now, acc) ==
  IF c > Len(CompanyOrder) \/ acc.raised THEN acc
  ELSE
    LET fetched == fetch_huggingface_models(w, MODEL_PATTERNS[CompanyOrder[c]].keywords)
        acc1 == [acc EXCEPT !.failed = @ \cup fetched.failed]
    IN HfStage(w, c + 1, existing, now,
               HfModels(fetched.models, 1, CompanyOrder[c], 0, existing, now, acc1))

Finish(acc, stage) == IF acc.raised THEN acc ELSE [acc EXCEPT !.done = @ \cup {stage}]

NoRun ==
  [status |-> "none", day |-> 0, world |-> [rss |-> 0, gh |-> 0, hf |-> 0],
   file_before |-> [kind |-> "absent", recs |-> <<>>],
   existing |-> <<>>, new |-> <<>>, log |-> <<>>, failed |-> {}, done |-> {},
   saved |-> FALSE]

\* a save of the new records alone
persist_new_only(existing_recs, new_recs, file) ==
  IF new_recs # <<>>
  THEN LET written == save_data(new_recs, file)
       IN [raised |-> written.raised, file |-> written.file, saved |-> ~written.raised]
  ELSE [raised |-> FALSE, file |-> file, saved |-> FALSE]

\* step 4 of fetch_all_updates: if new_updates: save_data(existing_data +
\* new_updates); otherwise the file is not touched
persist(existing_recs, new_recs, file) ==
  IF new_recs # <<>>
  THEN LET written == save_data(existing_recs \o new_recs, file)
       IN [raised |-> written.raised, file |-> written.file, saved |-> ~written.raised]
  ELSE [raised |-> FALSE, file |-> file, saved |-> FALSE]

\* fetch_all_updates: the file it leaves and what was observed of the run
fetch_all_updates(file, w, now) ==
  LET loaded == load_existing_data(file)
      start == [new |-> <<>>, raised |-> loaded.raised, log |-> <<>>,
                failed |-> {}, done |-> {}]
      rss == fetch_official_rss_updates(w, now)
      a1 == IF loaded.raised THEN start
            ELSE Finish(RssStage(rss.updates, 1, loaded,
                                 [start EXCEPT !.failed = rss.failed]), "rss")
      a2 == Finish(GithubStage(w, 1, loaded, now, a1), "github")
      a3 == Finish(HfStage(w, 1, loaded, now, a2), "hf")
      p == IF a3.raised THEN [raised |-> TRUE, file |-> file, saved |-> FALSE]
           ELSE persist(loaded.recs, Recs(a3.new), file)
  IN [file |-> p.file,
      obs |-> [status |-> IF p.raised THEN "raised" ELSE "ok",
               day |-> now, world |-> w, file_before |-> file,
               existing |-> loaded.recs, new |-> a3.new, log |-> a3.log,
               failed |-> a3.failed, done |-> a3.done,
               saved |-> p.saved]]

-----------------------------------------------------------------------------
(* The state machine *)

Absent == [kind |-> "absent", recs |-> <<>>]

NoRelease == [published_at |-> 0]

Init ==
  /\ data_file = Absent
  /\ today = 1
  /\ world \in Worlds
  /\ last = NoRun
  /\ repeat = FALSE
  /\ release_in = NoRelease
  /\ info_out = NoInfo

\* python fetch_updates.py
Run ==
  LET r == fetch_all_updates(data_file, world, today) IN
  /\ data_file' = r.file
  /\ last' = r.obs
  /\ repeat' = (last.status = "ok")
  /\ UNCHANGED <<today, world, release_in, info_out>>

\* midnight passes
Tick ==
  /\ today < MaxDay
  /\ today' = today + 1
  /\ last' = NoRun
  /\ repeat' = FALSE
  /\ UNCHANGED <<data_file, world, release_in, info_out>>

\* the sources publish, withdraw or break something
SourcesChange ==
  /\ \E w \in Worlds \ {world} : world' = w
  /\ last' = NoRun
  /\ repeat' = FALSE
  /\ UNCHANGED <<data_file, today, release_in, info_out>>

Next == Run \/ Tick \/ SourcesChange

Spec == Init /\ [][Next]_vars

\* the same machine started on a store file that somebody else left behind
UnreadableFiles ==
  {[kind |-> k, recs |-> <<>>] : k \in {"absent", "corrupt", "not_utf8", "json_object"}}

InitAnyFile ==
  /\ data_file \in UnreadableFiles
  /\ today = 1
  /\ world \in Worlds
  /\ last = NoRun
  /\ repeat = FALSE
  /\ release_in = NoRelease
  /\ info_out = NoInfo

SpecAnyFile == InitAnyFile /\ [][Next]_vars

-----------------------------------------------------------------------------
(* extract_model_info_from_github on its own, over every short tag *)

TagAlphabet == {"v", "4", ".", "-", " ", "o"}

Tags ==
  UNION {[1..n -> TagAlphabet] : n \in 0..MaxTagLen} \cup {TagTurbo, TagNewGPT}

InitTag ==
  /\ data_file = Absent
  /\ today = 1
  /\ world = [rss |-> 0, gh |-> 0, hf |-> 0]
  /\ last = NoRun
  /\ repeat = FALSE
  /\ release_in \in {[published_at |-> 1, tag_name |-> t, body |-> SomeText,
                       html_url |-> LinkXY] : t \in Tags}
  /\ info_out = NoInfo

Extract ==
  /\ info_out' = extract_model_info_from_github(release_in, "OpenAI")
  /\ UNCHANGED <<data_file, today, world, last, repeat, release_in>>

NextTag == Extract

SpecTag == InitTag /\ [][NextTag]_vars

-----------------------------------------------------------------------------
(* Properties *)

Ran == last.status # "none"

AllStages == {"rss", "github", "hf"}

SharesLink(r1, r2) == r1.link # <<>> /\ r1.link = r2.link

SharesName(r1, r2) == r1.company = r2.company /\ r1.model_name = r2.model_name

Conflicts(r, pool) ==
  \E i \in 1..Len(pool) : SharesLink(r, pool[i]) \/ SharesName(r, pool[i])

Count(s, x) == Cardinality({i \in 1..Len(s) : s[i] = x})

SameRecords(s, t) ==
  /\ Len(s) = Len(t)
  /\ \A i \in 1..Len(s) : Count(s, s[i]) = Count(t, s[i])

StageRank(stage) == CASE stage = "rss" -> 1 [] stage = "github" -> 2 [] OTHER -> 3

CompanyIndex(company) == CHOOSE c \in 1..Len(CompanyOrder) : CompanyOrder[c] = company

\* C1: a run that follows a run made on the same day with the same answers
\* of the sources accepts nothing and leaves the store as it found it.
C1_Idempotent ==
  (Ran /\ repeat) => (last.new = <<>> /\ data_file = last.file_before)

\* C2: no two records of the store share a non-empty link, and no two share
\* the pair (company, model_name).
C2_Unique ==
  \A i, j \in 1..Len(data_file.recs) :
     i < j => /\ ~SharesLink(data_file.recs[i], data_file.recs[j])
              /\ ~SharesName(data_file.recs[i], data_file.recs[j])

\* a run refused a candidate, and the store holds two records without a link
C2_Witness ==
  /\ Ran
  /\ \E k \in 1..Len(last.log) : ~last.log[k].accepted
  /\ \E i, j \in 1..Len(data_file.recs) :
        i < j /\ data_file.recs[i].link = <<>> /\ data_file.recs[j].link = <<>>

\* C3: a run is never aborted by a failing query, it finishes its three
\* stages, and no accepted record comes from a query that failed.
C3_Isolation ==
  Ran => /\ last.status = "ok"
         /\ last.done = AllStages
         /\ \A i \in 1..Len(last.new) : last.new[i].query \notin last.failed

\* C4: the records of the store file are in descending order of update_date.
C4_Sorted ==
  \A i \in 1..(Len(data_file.recs) - 1) :
     DateStrGE(data_file.recs[i].update_date, data_file.recs[i + 1].update_date)

\* a save whose input, the loaded records followed by the new ones, was not
\* in order
C4_Witness ==
  /\ Ran /\ last.saved
  /\ LET all_data == last.existing \o Recs(last.new) IN
     \E i \in 1..(Len(all_data) - 1) :
        ~DateStrGE(all_data[i].update_date, all_data[i + 1].update_date)

\* C5: every record a run accepts carries the date of the day of the run.
C5_TodayOnly ==
  Ran => \A i \in 1..Len(last.new) :
            last.new[i].rec.update_date = strftime(last.day)

\* a run that accepted a record from each stage while the Hugging Face search
\* also returned a model modified on another day
C5_Witness ==
  /\ Ran /\ last.day = 1 /\ last.world.hf = 2
  /\ {last.new[i].rec.source : i \in 1..Len(last.new)}
       = {"Official RSS", "GitHub", "Hugging Face"}

\* C6: a run that accepts nothing does not save and leaves the file as it
\* was; a run that accepts something writes exactly the loaded records and
\* the accepted ones, each as it was.
C6_Frame ==
  (Ran /\ last.status = "ok") =>
     IF last.new = <<>>
     THEN ~last.saved /\ data_file = last.file_before
     ELSE /\ last.saved
          /\ data_file.kind = "records"
          /\ SameRecords(data_file.recs, last.existing \o Recs(last.new))

\* a save that merged several new records into a store that had several
C6_Witness ==
  Ran /\ last.saved /\ Len(last.existing) >= 2 /\ Len(last.new) >= 2

\* the log lines of the Hugging Face stage for one company
HfLines(company) ==
  SelectSeq(last.log, LAMBDA l : l.stage = "hf" /\ l.rec.company = company)

\* the records accepted in the run before the Hugging Face stage reached
\* the company
AcceptedBefore(company) ==
  Recs(SelectSeq(last.new,
         LAMBDA n : \/ n.query[1] # "hf"
                    \/ CompanyIndex(n.rec.company) < CompanyIndex(company)))

\* what the Hugging Face search returned for the company in the run
HfInfos(company) ==
  LET models == fetch_huggingface_models(last.world, MODEL_PATTERNS[company].keywords).models
  IN [i \in 1..Len(models) |-> extract_model_info_from_hf(models[i].model, company, last.day)]

\* three or more models, all of today, none a duplicate of a record known
\* when the stage reaches the company nor of another of them
AllFresh(company) ==
  LET infos == HfInfos(company)
      pool == last.existing \o AcceptedBefore(company)
  IN /\ Len(infos) >= 3
     /\ \A i \in 1..Len(infos) :
           /\ infos[i].ok
           /\ infos[i].rec.update_date = strftime(last.day)
           /\ ~Conflicts(infos[i].rec, pool)
     /\ \A i, j \in 1..Len(infos) :
           i < j => ~Conflicts(infos[i].rec, <<infos[j].rec>>)

\* C7: for every company the Hugging Face stage accepts at most 2 records,
\* looks at no model after the second accepted one, and accepts exactly the
\* first 2 when 3 or more fresh models are returned.
C7_Cap ==
  (Ran /\ last.status = "ok") =>
     \A c \in 1..Len(CompanyOrder) :
        LET company == CompanyOrder[c]
            lines == HfLines(company)
            accepted == SelectSeq(lines, LAMBDA l : l.accepted)
        IN /\ Len(accepted) <= 2
           /\ Len(accepted) = 2 => lines[Len(lines)].accepted
           /\ AllFresh(company) =>
                 /\ Len(accepted) = 2
                 /\ accepted[1].rec = HfInfos(company)[1].rec
                 /\ accepted[2].rec = HfInfos(company)[2].rec

\* a run in which some company had three fresh models
C7_Witness ==
  /\ Ran /\ last.status = "ok"
  /\ \E c \in 1..Len(CompanyOrder) : AllFresh(CompanyOrder[c])

\* C8: whatever the store file is, absent or unreadable as a list of records,
\* the run starts from no history and goes through its three stages without
\* an exception.
C8_LoadNeverFails ==
  (Ran /\ last.file_before \in UnreadableFiles) =>
     /\ last.status = "ok"
     /\ last.done = AllStages
     /\ last.existing = <<>>

\* C9: the candidates are merged stage by stage, RSS then GitHub then
\* Hugging Face, and a candidate is accepted exactly when it conflicts with no
\* record of the loaded store and with no record accepted before it in the run.
C9_StageOrder ==
  (Ran /\ last.status = "ok") =>
     /\ \A i, j \in 1..Len(last.log) :
           i < j => StageRank(last.log[i].stage) <= StageRank(last.log[j].stage)
     /\ \A j \in 1..Len(last.log) :
           LET earlier == SelectSeq(SubSeq(last.log, 1, j - 1), LAMBDA l : l.accepted)
               pool == last.existing \o Recs(earlier)
           IN last.log[j].accepted <=> ~Conflicts(last.log[j].rec, pool)
     /\ Recs(last.new) = Recs(SelectSeq(last.log, LAMBDA l : l.accepted))

\* a candidate of a later stage was refused only because of a record that an
\* earlier stage had accepted in the same run
C9_Witness ==
  /\ Ran /\ last.status = "ok"
  /\ \E i, j \in 1..Len(last.log) :
        /\ i < j
        /\ last.log[i].accepted /\ ~last.log[j].accepted
        /\ StageRank(last.log[i].stage) < StageRank(last.log[j].stage)
        /\ Conflicts(last.log[j].rec, <<last.log[i].rec>>)
        /\ ~Conflicts(last.log[j].rec, last.existing)

\* a version number: digits, or digits separated by single dots, after an
\* optional v
IsVersion(p) ==
  LET b == IF p # <<>> /\ p[1] = "v" THEN Tail(p) ELSE p IN
  /\ b # <<>>
  /\ \A i \in 1..Len(b) : b[i] \in Digits \cup {"."}
  /\ b[1] \in Digits /\ b[Len(b)] \in Digits
  /\ \A i \in 1..(Len(b) - 1) : ~(b[i] = "." /\ b[i + 1] = ".")

\* a version number with at least one '<digits>.' group
IsDottedVersion(p) == IsVersion(p) /\ \E i \in 1..Len(p) : p[i] = "."

\* the tag without its longest prefix of the given kind, dashes then blanks
\* trimmed off both ends; the placeholder when nothing is left
NameWithout(tag, IsPrefix(_)) ==
  LET lens == {n \in 0..Len(tag) : n = 0 \/ IsPrefix(SubSeq(tag, 1, n))}
      longest == CHOOSE n \in lens : \A m \in lens : m <= n
      trimmed == Strip(Strip(SubSeq(tag, longest + 1, Len(tag)), {"-"}), Whitespace)
  IN IF trimmed = <<>>
     THEN CompanyChars["OpenAI"] \o <<" ","M","o","d","e","l"," ">> \o tag
     ELSE trimmed

\* C10 as stated: the prefix removed from the tag is an optional v, one or
\* more '<digits>.' groups and trailing digits.
C10_DottedPrefix ==
  info_out.ok =>
     info_out.rec.model_name = NameWithout(release_in.tag_name, IsDottedVersion)

\* C10 amended: the prefix removed from the tag is an optional v, zero or
\* more '<digits>.' groups and trailing digits.
C10_NumberPrefix ==
  info_out.ok =>
     info_out.rec.model_name = NameWithout(release_in.tag_name, IsVersion)

\* the tag v2.1-turbo was cleaned to turbo
C10_Witness ==
  /\ info_out.ok
  /\ release_in.tag_name = TagTurbo
  /\ info_out.rec.model_name = TagPlain

====
